---- MODULE Spec2Model ----
(***************************************************************************)
(* A state-machine model of rustocker's orchestration layer.               *)
(*                                                                         *)
(* Two assemblies share the skeleton of App::run (src/src/app.rs):         *)
(*   Spec      the orchestrator of app.rs as written: event channel,       *)
(*             polling task, input task, one-shot refresh tasks;           *)
(*   ViewSpec  the four Component views (ui_*.rs) driven through the same  *)
(*             run() skeleton, with keys routed to the active view.        *)
(***************************************************************************)
EXTENDS Integers, Sequences, FiniteSets, TLC

\* ------------------------------------------------------------------ bounds
MaxQueue == 2
MaxRefreshTasks == 1
MaxData == 1
MaxLen == 2
MaxExtraLines == 0
MaxElapsed == 10
ClockStep == 10
MaxPopupHeight == 15     \* rows of the inspect popup, at most

\* --------------------------------------------------------- program constants
NumTabs == 4
TickIntervalSecs == 10
BaseInspectLines == 12
InspectPageLines == 10

VARIABLES
    run_pc,            \* position of App::run
    run_result,        \* what run() returned: "ok" or the origin of the error
    raw_mode,          \* crossterm raw mode enabled
    alt_screen,        \* alternate screen entered
    cursor_shown,      \* cursor visible
    loading_drawn,     \* the last frame drawn showed the modal's "Loading..."
    active_tab,        \* App.active_tab
    should_quit,       \* App.should_quit
    cancelled,         \* set of cancellation tokens that have been cancelled
    cancel_count,      \* number of calls of cancellation_token.cancel()
    input_pc,          \* the task spawned by start_input_task
    queue,             \* the mpsc channel event_tx -> event_rx
    app_data,          \* App.containers / images / networks / volumes
    poll,              \* the task spawned by start_docker_task
    refresh,           \* the one-shot tasks spawned for RefreshRequested
    items,             \* per view: containers / images / networks / volumes
    selected_index,    \* per view: selected_index
    lock,              \* holder of the Arc<Mutex<DockerClient>>, or "free"
    view_task,         \* the tasks spawned by ContainersUI / NetworksUI start
    main_op,           \* the view call the main loop is suspended in
    modal,             \* ImagesUI: show_inspect_modal, inspect_data, inspect_scroll
    elapsed,           \* per ticking view: seconds since last_tick
    backend,           \* per polling view: the list the daemon holds now
    daemon             \* per resource kind: version of the list the daemon holds

termVars == <<raw_mode, alt_screen, cursor_shown, loading_drawn>>
ctlVars == <<active_tab, should_quit>>
tokVars == <<cancelled, cancel_count>>
appVars == <<queue, app_data, poll, refresh>>
viewVars == <<items, selected_index, lock, view_task, main_op, modal, elapsed,
              backend, daemon>>
vars == <<run_pc, run_result, termVars, ctlVars, tokVars, input_pc, appVars, viewVars>>

\* ------------------------------------------------------------------- values
Tabs == 0 .. (NumTabs - 1)
Kinds == 1 .. 4          \* fetch order: containers, images, networks, volumes
AppToken == "app"

\* KeyCode / KeyModifiers pairs the input task can deliver to app.rs
Keys == {"q", "ctrl_c", "c", "Esc", "r", "F5", "Right", "Left"}

KeyEvent(k) == [type |-> "Key", key |-> k, kind |-> 0, val |-> 0]
UpdatedEvent(kind, v) == [type |-> "Updated", key |-> "none", kind |-> kind, val |-> v]
ErrorEvent(kind) == [type |-> "Error", key |-> "none", kind |-> kind, val |-> 0]
RefreshRequested == [type |-> "RefreshRequested", key |-> "none", kind |-> 0, val |-> 0]

RefreshIds == 1 .. MaxRefreshTasks

\* views by tab slot
ContainersTab == 0
ImagesTab == 1
NetworksTab == 2
VolumesTab == 3
SpawningViews == {ContainersTab, NetworksTab}   \* start() spawns a refresh task
TickingViews == {ImagesTab, VolumesTab}         \* refreshed from tick()

NoOp == [op |-> "none", view |-> 0, stage |-> "none"]
ModalClosed == [show |-> FALSE, data |-> -1, scroll |-> 0]

\* render_inspect_modal: `None => "Loading..."` is drawn when the modal is
\* shown and no inspect data is held.
LoadingPlaceholder(m) == m.show /\ m.data = -1

\* the lists a list query can return: rows 1..n
BackendLists == {[i \in 1 .. n |-> i] : n \in 0 .. MaxLen}

\* ------------------------------------------------------------ App::new
InitApp ==
    /\ run_pc = "init"
    /\ run_result = "none"
    /\ raw_mode = FALSE
    /\ alt_screen = FALSE
    /\ cursor_shown = TRUE
    /\ loading_drawn = FALSE
    /\ active_tab = 0
    /\ should_quit = FALSE
    /\ cancelled = {}
    /\ cancel_count = 0
    /\ input_pc = "unspawned"
    /\ queue = <<>>
    /\ app_data = [k \in Kinds |-> 0]
    /\ poll = [pc |-> "unspawned", stage |-> 0]
    /\ refresh = [i \in RefreshIds |-> [pc |-> "free", stage |-> 0]]
    /\ daemon = [k \in Kinds |-> 1]

\* ContainersUI::new, ImagesUI::new, NetworksUI::new, VolumesUI::new
InitViews ==
    /\ items = [v \in Tabs |-> <<>>]
    /\ selected_index = [v \in Tabs |-> 0]
    /\ lock = "free"
    /\ view_task = [v \in SpawningViews |-> "unspawned"]
    /\ main_op = NoOp
    /\ modal = ModalClosed
    /\ elapsed = [v \in TickingViews |-> 0]
    /\ backend = [v \in SpawningViews |-> <<>>]

Init == InitApp /\ InitViews

\* ------------------------------------------------------- App::init_terminal
\* enable_raw_mode()?, execute!(EnterAlternateScreen)?, Terminal::new(backend)?
\* each `?` returns the error from run() with what was done so far left done.
InitTerminalResult(outcome) ==
    /\ raw_mode' = (outcome # "raw_failed")
    /\ alt_screen' = (outcome \in {"new_failed", "ok"})
    /\ run_pc' = IF outcome = "ok" THEN "start_tasks" ELSE "returned"
    /\ run_result' = IF outcome = "ok" THEN run_result ELSE "init_terminal"

InitTerminal ==
    /\ run_pc = "init"
    /\ \E outcome \in {"raw_failed", "alt_failed", "new_failed", "ok"} :
           InitTerminalResult(outcome)
    /\ UNCHANGED <<cursor_shown, loading_drawn, ctlVars, tokVars, input_pc, appVars,
                   viewVars>>

\* ---------------------------------------------------- App::start_docker_task
\* DockerClient::new().await? : a failed connection returns from run();
\* otherwise the polling task is spawned and starts with the initial fetch.
StartDockerTask ==
    /\ run_pc = "start_tasks"
    /\ \E connected \in BOOLEAN :
           IF connected
           THEN /\ poll' = [pc |-> "fetch", stage |-> 1]
                /\ run_pc' = "start_input"
                /\ run_result' = run_result
           ELSE /\ poll' = poll
                /\ run_pc' = "returned"
                /\ run_result' = "connect"
    /\ UNCHANGED <<termVars, ctlVars, tokVars, input_pc, queue, app_data, refresh,
                   viewVars>>

\* ----------------------------------------------------- App::start_input_task
StartInputTask ==
    /\ run_pc = "start_input"
    /\ input_pc' = "running"
    /\ run_pc' = "loop"
    /\ UNCHANGED <<run_result, termVars, ctlVars, tokVars, appVars, viewVars>>

\* --------------------------------------------------------------- App::run
\* while !self.should_quit { terminal.draw(..)?; ... }
\* Terminal::draw hides the cursor; a failed draw returns from run().
\* The frame shows what the views hold at that moment: the images view draws
\* "Loading..." in the modal when show_inspect_modal is set and inspect_data
\* is None.
Draw ==
    /\ run_pc = "loop"
    /\ ~should_quit
    /\ \E ok \in BOOLEAN :
           IF ok
           THEN /\ cursor_shown' = FALSE
                /\ loading_drawn' = LoadingPlaceholder(modal)
                /\ run_pc' = "recv"
                /\ run_result' = run_result
           ELSE /\ cursor_shown' = cursor_shown
                /\ loading_drawn' = loading_drawn
                /\ run_pc' = "returned"
                /\ run_result' = "draw"
    /\ UNCHANGED <<raw_mode, alt_screen, ctlVars, tokVars, input_pc, appVars,
                   viewVars>>

ExitLoop ==
    /\ run_pc = "loop"
    /\ should_quit
    /\ run_pc' = "cleanup"
    /\ UNCHANGED <<run_result, termVars, ctlVars, tokVars, input_pc, appVars,
                   viewVars>>

\* ---------------------------------------------------- App::cleanup_terminal
\* disable_raw_mode()?, execute!(LeaveAlternateScreen)?, show_cursor()?
CleanupTerminalResult(outcome) ==
    /\ raw_mode' = (raw_mode /\ outcome = "raw_failed")
    /\ alt_screen' = (alt_screen /\ outcome \in {"raw_failed", "alt_failed"})
    /\ cursor_shown' = (cursor_shown \/ outcome = "ok")
    /\ run_pc' = IF outcome = "ok" THEN "cancel" ELSE "returned"
    /\ run_result' = IF outcome = "ok" THEN run_result ELSE "cleanup"

CleanupTerminal ==
    /\ run_pc = "cleanup"
    /\ \E outcome \in {"raw_failed", "alt_failed", "cursor_failed", "ok"} :
           CleanupTerminalResult(outcome)
    /\ UNCHANGED <<loading_drawn, ctlVars, tokVars, input_pc, appVars, viewVars>>

\* self.cancellation_token.cancel(); Ok(())
Cancel ==
    /\ run_pc = "cancel"
    /\ cancelled' = cancelled \cup {AppToken}
    /\ cancel_count' = cancel_count + 1
    /\ run_pc' = "returned"
    /\ run_result' = "ok"
    /\ UNCHANGED <<termVars, ctlVars, input_pc, appVars, viewVars>>

\* ------------------------------------------------------ App::handle_key_event
\* a handler that matches the character c without looking at the modifiers
KeyQuitsAnyC(k) == k \in {"q", "ctrl_c", "c", "Esc"}

\* a handler whose Left arm also sets the quit flag
KeyQuitsOnLeft(k) == k \in {"q", "ctrl_c", "Esc", "Left"}

KeyQuits(k) == k \in {"q", "ctrl_c", "Esc"}

\* a handler that stops at the first and last tab instead of wrapping
TabAfterKeyClamped(tab, k) ==
    CASE k = "Right" -> IF tab = NumTabs - 1 THEN tab ELSE tab + 1
      [] k = "Left"  -> IF tab = 0 THEN tab ELSE tab - 1
      [] OTHER       -> tab

\* a handler whose Right steps to the next index without wrapping
TabAfterKeyNoWrap(tab, k) ==
    CASE k = "Right" -> tab + 1
      [] k = "Left"  -> IF tab = 0 THEN NumTabs - 1 ELSE tab - 1
      [] OTHER       -> tab

TabAfterKey(tab, k) ==
    CASE k = "Right" -> (tab + 1) % NumTabs
      [] k = "Left"  -> IF tab = 0 THEN NumTabs - 1 ELSE tab - 1
      [] OTHER       -> tab

QueueAfterKey(q, k) ==
    IF k \in {"r", "F5"} THEN Append(q, RefreshRequested) ELSE q

\* ---------------------------------------------------------- App::handle_event
\* a handler that forgets a kind's list when that kind's query failed
DataAfterEventClearOnError(data, e) ==
    CASE e.type = "Updated" -> [data EXCEPT ![e.kind] = e.val]
      [] e.type = "Error"   -> [data EXCEPT ![e.kind] = 0]
      [] OTHER              -> data

DataAfterEvent(data, e) ==
    IF e.type = "Updated" THEN [data EXCEPT ![e.kind] = e.val] ELSE data

FreeRefreshIds == {i \in RefreshIds : refresh[i].pc = "free"}

RefreshAfterEvent(e) ==
    IF e.type = "RefreshRequested"
    THEN LET i == CHOOSE j \in FreeRefreshIds : \A m \in FreeRefreshIds : j <= m
         IN  [refresh EXCEPT ![i] = [pc |-> "connect", stage |-> 0]]
    ELSE refresh

\* if let Some(event) = self.event_rx.recv().await { self.handle_event(event).await?; }
\* handle_event returns Ok(()) on every arm.
\* a receiver that hands out the newest event of the channel first
\* a loop that keeps taking events while the channel holds any, and draws
\* only when it is empty
RecvUntilEmpty ==
    /\ run_pc = "recv"
    /\ queue # <<>>
    /\ LET e == Head(queue) IN
         /\ e.type = "RefreshRequested" => FreeRefreshIds # {}
         /\ should_quit' = (should_quit \/ (e.type = "Key" /\ KeyQuits(e.key)))
         /\ active_tab' = IF e.type = "Key" THEN TabAfterKey(active_tab, e.key)
                                            ELSE active_tab
         /\ queue' = IF e.type = "Key" THEN QueueAfterKey(Tail(queue), e.key)
                                       ELSE Tail(queue)
         /\ app_data' = DataAfterEvent(app_data, e)
         /\ refresh' = RefreshAfterEvent(e)
    /\ run_pc' = IF queue' = <<>> THEN "loop" ELSE "recv"
    /\ UNCHANGED <<run_result, termVars, tokVars, input_pc, poll, viewVars>>

RecvNewest ==
    /\ run_pc = "recv"
    /\ queue # <<>>
    /\ LET e == queue[Len(queue)]
           rest == SubSeq(queue, 1, Len(queue) - 1) IN
         /\ e.type = "RefreshRequested" => FreeRefreshIds # {}
         /\ should_quit' = (should_quit \/ (e.type = "Key" /\ KeyQuits(e.key)))
         /\ active_tab' = IF e.type = "Key" THEN TabAfterKey(active_tab, e.key)
                                            ELSE active_tab
         /\ queue' = IF e.type = "Key" THEN QueueAfterKey(rest, e.key) ELSE rest
         /\ app_data' = DataAfterEvent(app_data, e)
         /\ refresh' = RefreshAfterEvent(e)
    /\ run_pc' = "loop"
    /\ UNCHANGED <<run_result, termVars, tokVars, input_pc, poll, viewVars>>

Recv ==
    /\ run_pc = "recv"
    /\ queue # <<>>
    /\ LET e == Head(queue) IN
         /\ e.type = "RefreshRequested" => FreeRefreshIds # {}
         /\ should_quit' = (should_quit \/ (e.type = "Key" /\ KeyQuits(e.key)))
         /\ active_tab' = IF e.type = "Key" THEN TabAfterKey(active_tab, e.key)
                                            ELSE active_tab
         /\ queue' = IF e.type = "Key" THEN QueueAfterKey(Tail(queue), e.key)
                                       ELSE Tail(queue)
         /\ app_data' = DataAfterEvent(app_data, e)
         /\ refresh' = RefreshAfterEvent(e)
    /\ run_pc' = "loop"
    /\ UNCHANGED <<run_result, termVars, tokVars, input_pc, poll, viewVars>>

\* ----------------------------------------------------- App::start_input_task
\* select! { cancelled => break, reader.next() => send Key(key) }
InputKey ==
    /\ input_pc = "running"
    /\ Len(queue) < MaxQueue
    /\ \E k \in Keys : queue' = Append(queue, KeyEvent(k))
    /\ UNCHANGED <<run_pc, run_result, termVars, ctlVars, tokVars, input_pc,
                   app_data, poll, refresh, viewVars>>

InputCancelled ==
    /\ input_pc = "running"
    /\ AppToken \in cancelled
    /\ input_pc' = "done"
    /\ UNCHANGED <<run_pc, run_result, termVars, ctlVars, tokVars, appVars, viewVars>>

\* ------------------------------------------------ App::fetch_all_docker_data
\* one list query of the four, in order; its outcome is sent on the channel
FetchEvent(kind, ok, v) == IF ok THEN UpdatedEvent(kind, v) ELSE ErrorEvent(kind)

\* where a fetching task is after the query of `stage`; `after` is what follows
\* the fourth query
FetchNext(stage, after) ==
    IF stage < 4 THEN [pc |-> "fetch", stage |-> stage + 1]
                 ELSE [pc |-> after, stage |-> 0]

\* ---------------------------------------------------- App::start_docker_task
\* the spawned task: initial fetch, then select! { cancelled => break,
\* interval.tick() => fetch_all_docker_data }. A failed query sends an Error
\* event and the task goes on.
\* a task that leaves its loop at the first failed query
PollAfterFetchBreakOnError(stage, ok) ==
    IF ok THEN FetchNext(stage, "select") ELSE [pc |-> "done", stage |-> 0]

PollAfterFetch(stage, ok) == FetchNext(stage, "select")

PollFetch ==
    /\ poll.pc = "fetch"
    /\ Len(queue) < MaxQueue
    /\ \E ok \in BOOLEAN, v \in 1 .. MaxData :
           /\ queue' = Append(queue, FetchEvent(poll.stage, ok, v))
           /\ poll' = PollAfterFetch(poll.stage, ok)
    /\ UNCHANGED <<run_pc, run_result, termVars, ctlVars, tokVars, input_pc,
                   app_data, refresh, viewVars>>

\* select! picks any ready branch: the interval tick may win over cancelled()
PollTick ==
    /\ poll.pc = "select"
    /\ poll' = [pc |-> "fetch", stage |-> 1]
    /\ UNCHANGED <<run_pc, run_result, termVars, ctlVars, tokVars, input_pc,
                   queue, app_data, refresh, viewVars>>

PollCancelled ==
    /\ poll.pc = "select"
    /\ AppToken \in cancelled
    /\ poll' = [pc |-> "done", stage |-> 0]
    /\ UNCHANGED <<run_pc, run_result, termVars, ctlVars, tokVars, input_pc,
                   queue, app_data, refresh, viewVars>>

\* --------------------------------- App::handle_event, RefreshRequested task
\* if let Ok(docker_client) = DockerClient::new().await { fetch_all(..) }
RefreshConnect(i) ==
    /\ refresh[i].pc = "connect"
    /\ \E connected \in BOOLEAN :
           refresh' = [refresh EXCEPT ![i] =
                          IF connected THEN [pc |-> "fetch", stage |-> 1]
                                       ELSE [pc |-> "free", stage |-> 0]]
    /\ UNCHANGED <<run_pc, run_result, termVars, ctlVars, tokVars, input_pc,
                   queue, app_data, poll, viewVars>>

RefreshFetch(i) ==
    /\ refresh[i].pc = "fetch"
    /\ Len(queue) < MaxQueue
    /\ \E ok \in BOOLEAN, v \in 1 .. MaxData :
           queue' = Append(queue, FetchEvent(refresh[i].stage, ok, v))
    /\ refresh' = [refresh EXCEPT ![i] = FetchNext(refresh[i].stage, "free")]
    /\ UNCHANGED <<run_pc, run_result, termVars, ctlVars, tokVars, input_pc,
                   app_data, poll, viewVars>>

\* ------------------------------------------------------------------ main
\* run() has returned: main returns, the App, its views and its channel are
\* dropped and the runtime drops every task at its next suspension point.
\* What outlives the process is the terminal's mode.
\* a runtime that leaves its tasks running when main returns
DroppedTaskKeepsRunning(pc) == pc

DroppedTask(pc) == IF pc \in {"unspawned", "done"} THEN pc ELSE "dropped"

ProcessExit ==
    /\ run_pc = "returned"
    /\ run_pc' = "exited"
    /\ poll' = [pc |-> DroppedTask(poll.pc), stage |-> 0]
    /\ input_pc' = DroppedTask(input_pc)
    /\ refresh' = [i \in RefreshIds |-> [pc |-> "free", stage |-> 0]]
    /\ view_task' = [v \in SpawningViews |-> DroppedTask(view_task[v])]
    /\ lock' = "free"
    /\ queue' = <<>>
    /\ app_data' = [k \in Kinds |-> 0]
    /\ items' = [v \in Tabs |-> <<>>]
    /\ selected_index' = [v \in Tabs |-> 0]
    /\ modal' = ModalClosed
    /\ elapsed' = [v \in TickingViews |-> 0]
    /\ backend' = [v \in SpawningViews |-> <<>>]
    /\ daemon' = [k \in Kinds |-> 1]
    /\ UNCHANGED <<run_result, termVars, ctlVars, tokVars, main_op>>

Next ==
    \/ InitTerminal
    \/ StartDockerTask
    \/ StartInputTask
    \/ Draw
    \/ ExitLoop
    \/ Recv
    \/ CleanupTerminal
    \/ Cancel
    \/ InputKey
    \/ InputCancelled
    \/ PollFetch
    \/ PollTick
    \/ PollCancelled
    \/ \E i \in RefreshIds : RefreshConnect(i)
    \/ \E i \in RefreshIds : RefreshFetch(i)
    \/ ProcessExit

Spec == Init /\ [][Next]_vars

\* ================================ the input task reading the terminal's events
\* crossterm's KeyEvent carries a kind; handle_key_event never reads it, so in
\* Spec a Key event stands for a key event of any kind. Here the kind is kept
\* in the event that travels on the channel.
KindPress == 0
KindRepeat == 1
KindRelease == 2
KeyEventKinds == {KindPress, KindRepeat, KindRelease}

\* the key codes read from the terminal in this specification
TerminalKeys == {"q", "r"}

\* what reader.next() yields: Some(Ok(Event::Key(..))), another Some(Ok(..))
\* (resize, mouse, focus, paste), or Some(Err(_))
TerminalEvents ==
    {[type |-> "Key", key |-> k, kind |-> kd] : k \in TerminalKeys, kd \in KeyEventKinds}
        \cup {[type |-> t, key |-> "none", kind |-> KindPress] :
                 t \in {"Resize", "Mouse", "ReadError"}}

\* AppEvent::Key(key): the KeyEvent as read, kind included
KeyEventOfKind(k, kd) == [KeyEvent(k) EXCEPT !.val = kd]

\* match maybe_event { Some(Ok(Event::Key(key))) => send(AppEvent::Key(key)),
\*                     Some(Err(_)) => {}, _ => {} }
QueueAfterTerminalEvent(q, ev) ==
    IF ev.type = "Key" THEN Append(q, KeyEventOfKind(ev.key, ev.kind)) ELSE q

InputEvent ==
    /\ input_pc = "running"
    /\ Len(queue) < MaxQueue
    /\ \E ev \in TerminalEvents : queue' = QueueAfterTerminalEvent(queue, ev)
    /\ UNCHANGED <<run_pc, run_result, termVars, ctlVars, tokVars, input_pc,
                   app_data, poll, refresh, viewVars>>

InputNext ==
    \/ InitTerminal
    \/ StartDockerTask
    \/ StartInputTask
    \/ Draw
    \/ ExitLoop
    \/ Recv
    \/ CleanupTerminal
    \/ Cancel
    \/ InputEvent
    \/ InputCancelled
    \/ PollFetch
    \/ PollTick
    \/ PollCancelled
    \/ \E i \in RefreshIds : RefreshConnect(i)
    \/ \E i \in RefreshIds : RefreshFetch(i)
    \/ ProcessExit

InputSpec == Init /\ [][InputNext]_vars



\* ======================================================= the Component views
SatSub(a, b) == IF a > b THEN a - b ELSE 0          \* usize::saturating_sub

\* ------------------------------------------------------ XxxUI::refresh_now
\* Ok arm: "Adjust selected index if necessary"
ClampSelected(sel, list) ==
    IF sel >= Len(list) /\ Len(list) # 0 THEN Len(list) - 1 ELSE sel

\* Ok(list) replaces the rows and clamps; Err(e) logs and returns Err(e)
\* a refresh that extends the rows it had instead of replacing them
ItemsAfterRefreshAppend(old, ok, list) == IF ok THEN old \o list ELSE old

\* a refresh that drops the rows it had when the query fails
ItemsAfterRefreshClearOnError(old, ok, list) == IF ok THEN list ELSE <<>>

ItemsAfterRefresh(old, ok, list) == IF ok THEN list ELSE old

SelectedAfterRefresh(sel, ok, list) == IF ok THEN ClampSelected(sel, list) ELSE sel

\* a refresh that stores the list it got in every view
RefreshAppliedToAll(v, ok, list) ==
    /\ items' = [w \in Tabs |-> ItemsAfterRefresh(items[w], ok, list)]
    /\ selected_index' = [w \in Tabs |-> SelectedAfterRefresh(selected_index[w], ok, list)]

RefreshApplied(v, ok, list) ==
    /\ items' = [items EXCEPT ![v] = ItemsAfterRefresh(items[v], ok, list)]
    /\ selected_index' = [selected_index EXCEPT ![v] =
                             SelectedAfterRefresh(selected_index[v], ok, list)]

\* get_selected_xxx(): self.xxx.get(self.selected_index) is Some
HasSelected(v) == selected_index[v] < Len(items[v])

\* ------------------------------------------------------ XxxUI::handle_input
SelectedAfterUp(sel) == IF sel > 0 THEN sel - 1 ELSE sel

\* a Down that wraps from the last row to the first
SelectedAfterDownWrap(sel, list) ==
    IF Len(list) = 0 THEN sel ELSE (sel + 1) % Len(list)

SelectedAfterDown(sel, list) ==
    IF sel < SatSub(Len(list), 1) THEN sel + 1 ELSE sel

SelectedAfterKey(sel, list, k) ==
    CASE k = "Up"   -> SelectedAfterUp(sel)
      [] k = "Down" -> SelectedAfterDown(sel, list)
      [] OTHER      -> sel

\* the suspending call a key starts in view v while browsing, "none" if the key
\* is handled without awaiting the client
OpOfKey(v, k) ==
    CASE k \in {"r", "F5"}                                   -> "refresh"
      [] k = "s" /\ v = ContainersTab /\ HasSelected(v)      -> "toggle"
      [] k = "i" /\ v = ImagesTab /\ HasSelected(v)          -> "inspect"
      [] OTHER                                               -> "none"

\* ---------------------------------- ImagesUI::handle_input, modal input first
\* format_inspect_data(..).len(): the fixed lines plus the optional ones
TotalLines(data) == BaseInspectLines + data

\* the letters with a match arm of their own in the view's handle_input
ActionLetters(v) ==
    CASE v = ContainersTab -> {"s", "l", "d"}
      [] v = ImagesTab     -> {"d", "p", "i"}
      [] OTHER             -> {"d", "c", "i"}

\* the keys the view's handle_input has an arm for, while browsing
ActsOn(v, k) == k \in {"Up", "Down", "r", "F5"} \cup ActionLetters(v)

\* the Ok value handle_input ends with: VolumesUI returns Ok(true) from each
\* arm and Ok(false) from `_`; the other three views are declared
\* `-> Result<()>` and end with Ok(()) after every key
HandleInputResult(v, k) ==
    IF v = VolumesTab THEN (IF ActsOn(v, k) THEN "true" ELSE "false") ELSE "unit"

\* a modal that also closes on d
\* render_inspect_modal: .take(popup_area.height.saturating_sub(3)), the lines
\* of the detail text one frame shows in a popup of that many rows
VisibleLines(height) == SatSub(height, 3)

\* the window heights H a terminal can give the popup
WindowHeights == {VisibleLines(h) : h \in 0 .. MaxPopupHeight}

ModalAfterKeyCloseOnD(m, k) ==
    CASE k \in {"i", "d"} -> ModalClosed
      [] k = "Up"   -> [m EXCEPT !.scroll = IF m.scroll > 0 THEN m.scroll - 1 ELSE m.scroll]
      [] k = "Down" -> IF m.data # -1 /\ m.scroll < SatSub(TotalLines(m.data), InspectPageLines)
                       THEN [m EXCEPT !.scroll = m.scroll + 1]
                       ELSE m
      [] OTHER      -> m

\* a modal whose close key only hides it
ModalAfterKeyHideOnly(m, k) ==
    CASE k = "i"    -> [m EXCEPT !.show = FALSE]
      [] k = "Up"   -> [m EXCEPT !.scroll = IF m.scroll > 0 THEN m.scroll - 1 ELSE m.scroll]
      [] k = "Down" -> IF m.data # -1 /\ m.scroll < SatSub(TotalLines(m.data), InspectPageLines)
                       THEN [m EXCEPT !.scroll = m.scroll + 1]
                       ELSE m
      [] OTHER      -> m

ModalAfterKey(m, k) ==
    CASE k = "i"    -> ModalClosed
      [] k = "Up"   -> [m EXCEPT !.scroll = IF m.scroll > 0 THEN m.scroll - 1 ELSE m.scroll]
      [] k = "Down" -> IF m.data # -1 /\ m.scroll < SatSub(TotalLines(m.data), InspectPageLines)
                       THEN [m EXCEPT !.scroll = m.scroll + 1]
                       ELSE m
      [] OTHER      -> m

\* ------------------------------------------------- ImagesUI::inspect_image
ModalLoading == [show |-> TRUE, data |-> -1, scroll |-> 0]

ModalAfterInspectKeepOpen(m, ok, details) ==
    [m EXCEPT !.data = IF ok THEN details ELSE m.data]

ModalAfterInspect(m, ok, details) ==
    IF ok THEN [m EXCEPT !.data = details] ELSE [m EXCEPT !.show = FALSE]

\* --------------------------------- ContainersUI::new / NetworksUI::new
\* cancellation_token: CancellationToken::new() -- a token of the view's own
ViewToken(v) == IF v = ContainersTab THEN "containers" ELSE "networks"

TaskOf(v) == IF v = ContainersTab THEN "containers_task" ELSE "networks_task"

\* ------------------------------- ContainersUI::start / NetworksUI::start
\* the spawned task: select! { cancelled => break, interval.tick() => query }
SelectBranches(token) ==
    {"tick"} \cup (IF token \in cancelled THEN {"cancelled"} ELSE {})

ViewTaskSelect(v) ==
    /\ view_task[v] = "select"
    /\ \E branch \in SelectBranches(ViewToken(v)) :
           view_task' = [view_task EXCEPT ![v] =
                            IF branch = "cancelled" THEN "done" ELSE "lock"]
    /\ UNCHANGED <<run_pc, run_result, termVars, ctlVars, tokVars, input_pc, appVars,
                   items, selected_index, lock, main_op, modal, elapsed, backend, daemon>>

\* docker_client.lock().await
ViewTaskAcquire(v) ==
    /\ view_task[v] = "lock"
    /\ lock = "free"
    /\ lock' = TaskOf(v)
    /\ view_task' = [view_task EXCEPT ![v] = "query"]
    /\ UNCHANGED <<run_pc, run_result, termVars, ctlVars, tokVars, input_pc, appVars,
                   items, selected_index, main_op, modal, elapsed, backend, daemon>>

\* .list_containers().await returns: an Err is logged, the result is dropped,
\* the guard is released and the loop goes on
ViewTaskAfterQuery(ok) == "select"

\* a task that keeps the guard of one iteration and asks for the lock again
ViewTaskQueryReturnsHoldingGuard(v) ==
    /\ view_task[v] = "query"
    /\ lock = TaskOf(v)
    /\ view_task' = [view_task EXCEPT ![v] = "lock"]
    /\ lock' = lock
    /\ UNCHANGED <<run_pc, run_result, termVars, ctlVars, tokVars, input_pc, appVars,
                   items, selected_index, main_op, modal, elapsed, backend, daemon>>

ViewTaskQueryReturns(v) ==
    /\ view_task[v] = "query"
    /\ lock = TaskOf(v)
    /\ \E ok \in BOOLEAN :
           view_task' = [view_task EXCEPT ![v] = ViewTaskAfterQuery(ok)]
    /\ lock' = "free"
    /\ UNCHANGED <<run_pc, run_result, termVars, ctlVars, tokVars, input_pc, appVars,
                   items, selected_index, main_op, modal, elapsed, backend, daemon>>


\* ============================================ run() driving the four views
\* keys the orchestrator consumes itself; every other key goes to the view
\* whose tab is active_tab
GlobalKeys == {"q", "ctrl_c", "Esc", "Left", "Right"}
ViewKeys == {"Up", "Down", "r", "F5", "s", "l", "d", "c", "i", "p"}

StartOp(v) == [op |-> "start", view |-> v, stage |-> "lock"]

\* `?` on a call made from run(): Ok goes on, Err returns from run()
RunAfterCall(ok, next) == IF ok THEN next ELSE "returned"

ResultAfterCall(ok, origin) == IF ok THEN run_result ELSE origin

\* run(): start each view, in tab order
StartViews ==
    /\ run_pc = "start_tasks"
    /\ main_op = NoOp
    /\ main_op' = StartOp(0)
    /\ UNCHANGED <<run_pc, run_result, termVars, ctlVars, tokVars, input_pc, appVars,
                   items, selected_index, lock, view_task, modal, elapsed, backend, daemon>>

\* let client = self.docker_client.lock().await;  (in a call made by the main loop)
\* a lock() that does not wait for the guard to be dropped
MainAcquireNoWait ==
    /\ main_op.stage = "lock"
    /\ lock' = "main"
    /\ main_op' = [main_op EXCEPT !.stage = "query"]
    /\ UNCHANGED <<run_pc, run_result, termVars, ctlVars, tokVars, input_pc, appVars,
                   items, selected_index, view_task, modal, elapsed, backend, daemon>>

MainAcquire ==
    /\ main_op.stage = "lock"
    /\ lock = "free"
    /\ lock' = "main"
    /\ main_op' = [main_op EXCEPT !.stage = "query"]
    /\ UNCHANGED <<run_pc, run_result, termVars, ctlVars, tokVars, input_pc, appVars,
                   items, selected_index, view_task, modal, elapsed, backend, daemon>>

\* the client call the main loop awaits comes back with an Err
MainQueryFails ==
    /\ main_op.stage = "query"
    /\ main_op' = [main_op EXCEPT !.stage = "failed"]
    /\ UNCHANGED <<run_pc, run_result, termVars, ctlVars, tokVars, input_pc, appVars,
                   items, selected_index, lock, view_task, modal, elapsed, backend, daemon>>

\* XxxUI::start: the initial refresh_now returns. Containers and networks:
\* refresh_now().await? and then tokio::spawn; images and volumes: the result
\* of refresh_now is the result of start. run() takes the result with `?`.
TaskAfterStart(v, pc, ok) == IF ok /\ v \in SpawningViews THEN "select" ELSE pc

StartRefreshDone(ok, list) ==
    LET v == main_op.view IN
    /\ RefreshApplied(v, ok, list)
    /\ view_task' = [t \in SpawningViews |->
                        IF t = v THEN TaskAfterStart(v, view_task[t], ok)
                                 ELSE view_task[t]]
    /\ main_op' = IF ok /\ v < NumTabs - 1 THEN StartOp(v + 1) ELSE NoOp
    /\ run_pc' = IF ok /\ v < NumTabs - 1 THEN run_pc
                 ELSE RunAfterCall(ok, "start_input")
    /\ run_result' = ResultAfterCall(ok, "start")
    /\ lock' = "free"
    /\ UNCHANGED <<termVars, ctlVars, tokVars, input_pc, appVars, modal, elapsed, backend, daemon>>

StartRefreshReturns ==
    /\ main_op.op = "start"
    /\ main_op.stage = "query"
    /\ \E list \in BackendLists : StartRefreshDone(TRUE, list)

StartRefreshFails ==
    /\ main_op.op = "start"
    /\ main_op.stage = "failed"
    /\ StartRefreshDone(FALSE, <<>>)

\* handle_global_key_event: quit keys and tab switching
DispatchGlobalKey ==
    /\ run_pc = "recv"
    /\ \E k \in GlobalKeys :
         /\ should_quit' = (should_quit \/ KeyQuits(k))
         /\ active_tab' = TabAfterKey(active_tab, k)
    /\ run_pc' = "loop"
    /\ UNCHANGED <<run_result, termVars, tokVars, input_pc, appVars, viewVars>>

\* components.iter().find(|c| c.tab() == active_tab)
\* the orchestrator's collection: the tab() of each view, in the order the
\* views are constructed (tab numbers 0, 1, 2, ... in that order); tab()
\* returns the tab_num field, which no code assigns after new()
Components == <<ContainersTab, ImagesTab, NetworksTab, VolumesTab>>

\* draw_ui: app.components.iter().find(|c| c.tab() == app.active_tab)
ViewsWithTab(tab) == {i \in 1 .. Len(Components) : Components[i] = tab}

ComponentOfTab(tab) == tab

\* component.handle_input(key) of the view whose tab() is active_tab
DispatchViewKey ==
    /\ run_pc = "recv"
    /\ LET v == ComponentOfTab(active_tab) IN
       \E k \in ViewKeys :
         IF v = ImagesTab /\ modal.show
         THEN /\ modal' = ModalAfterKey(modal, k)
              /\ run_pc' = "loop"
              /\ UNCHANGED <<selected_index, main_op>>
         ELSE IF OpOfKey(v, k) = "none"
         THEN /\ selected_index' = [selected_index EXCEPT ![v] =
                                       SelectedAfterKey(selected_index[v], items[v], k)]
              /\ run_pc' = "loop"
              /\ UNCHANGED <<modal, main_op>>
         ELSE /\ main_op' = [op |-> OpOfKey(v, k), view |-> v, stage |-> "lock"]
              /\ modal' = IF OpOfKey(v, k) = "inspect" THEN ModalLoading ELSE modal
              /\ run_pc' = "handling"
              /\ UNCHANGED selected_index
    /\ UNCHANGED <<run_result, termVars, ctlVars, tokVars, input_pc, appVars,
                   items, lock, view_task, elapsed, backend, daemon>>

\* r / F5: self.refresh_now().await? inside handle_input, whose result run()
\* takes with `?`
ManualRefreshDone(ok, list) ==
    /\ RefreshApplied(main_op.view, ok, list)
    /\ run_pc' = RunAfterCall(ok, "loop")
    /\ run_result' = ResultAfterCall(ok, "handler")
    /\ lock' = "free"
    /\ main_op' = NoOp
    /\ UNCHANGED <<termVars, ctlVars, tokVars, input_pc, appVars, view_task, modal,
                   elapsed, backend, daemon>>

ManualRefreshReturns ==
    /\ main_op.op = "refresh"
    /\ main_op.stage = "query"
    /\ \E list \in BackendLists : ManualRefreshDone(TRUE, list)

ManualRefreshFails ==
    /\ main_op.op = "refresh"
    /\ main_op.stage = "failed"
    /\ ManualRefreshDone(FALSE, <<>>)

\* ContainersUI::toggle_container_state: get_container_status returned; both
\* arms only log, then Ok(())
\* a toggle that hands a failed get_container_status on to run()
ToggleDonePropagatesError ==
    /\ main_op.op = "toggle"
    /\ main_op.stage \in {"query", "failed"}
    /\ lock' = "free"
    /\ main_op' = NoOp
    /\ run_pc' = RunAfterCall(main_op.stage = "query", "loop")
    /\ run_result' = ResultAfterCall(main_op.stage = "query", "handler")
    /\ UNCHANGED <<termVars, ctlVars, tokVars, input_pc, appVars,
                   items, selected_index, view_task, modal, elapsed, backend, daemon>>

ToggleDone ==
    /\ main_op.op = "toggle"
    /\ main_op.stage \in {"query", "failed"}
    /\ lock' = "free"
    /\ main_op' = NoOp
    /\ run_pc' = "loop"
    /\ UNCHANGED <<run_result, termVars, ctlVars, tokVars, input_pc, appVars,
                   items, selected_index, view_task, modal, elapsed, backend, daemon>>

\* ImagesUI::inspect_image: the detail fetch returned
InspectDone(ok, details) ==
    /\ modal' = ModalAfterInspect(modal, ok, details)
    /\ lock' = "free"
    /\ main_op' = NoOp
    /\ run_pc' = "loop"
    /\ UNCHANGED <<run_result, termVars, ctlVars, tokVars, input_pc, appVars,
                   items, selected_index, view_task, elapsed, backend, daemon>>

InspectReturns ==
    /\ main_op.op = "inspect"
    /\ main_op.stage = "query"
    /\ \E details \in 0 .. MaxExtraLines : InspectDone(TRUE, details)

InspectFails ==
    /\ main_op.op = "inspect"
    /\ main_op.stage = "failed"
    /\ InspectDone(FALSE, 0)

\* the loop's periodic tick: tick() of every view that has one, in tab order
DispatchTick ==
    /\ run_pc = "recv"
    /\ main_op' = [op |-> "tick", view |-> ImagesTab, stage |-> "check"]
    /\ run_pc' = "handling"
    /\ UNCHANGED <<run_result, termVars, ctlVars, tokVars, input_pc, appVars,
                   items, selected_index, lock, view_task, modal, elapsed, backend, daemon>>

TickNextOp(v) ==
    IF v = ImagesTab THEN [op |-> "tick", view |-> VolumesTab, stage |-> "check"]
                     ELSE NoOp

TickNextPc(v) == IF v = ImagesTab THEN "handling" ELSE "loop"

\* ImagesUI::tick / VolumesUI::tick:
\* if now.duration_since(self.last_tick).as_secs() >= 10 { last_tick = now; refresh }
TickDue(secs) == secs >= TickIntervalSecs

TickCheck ==
    /\ main_op.op = "tick"
    /\ main_op.stage = "check"
    /\ LET v == main_op.view IN
         IF TickDue(elapsed[v])
         THEN /\ elapsed' = [elapsed EXCEPT ![v] = 0]
              /\ main_op' = [main_op EXCEPT !.stage = "lock"]
              /\ run_pc' = run_pc
         ELSE /\ elapsed' = elapsed
              /\ main_op' = TickNextOp(v)
              /\ run_pc' = TickNextPc(v)
    /\ UNCHANGED <<run_result, termVars, ctlVars, tokVars, input_pc, appVars,
                   items, selected_index, lock, view_task, modal, backend, daemon>>

\* let _ = self.refresh_now().await;
TickRefreshDone(ok, list) ==
    /\ RefreshApplied(main_op.view, ok, list)
    /\ lock' = "free"
    /\ main_op' = TickNextOp(main_op.view)
    /\ run_pc' = TickNextPc(main_op.view)
    /\ UNCHANGED <<run_result, termVars, ctlVars, tokVars, input_pc, appVars,
                   view_task, modal, elapsed, backend, daemon>>

TickRefreshReturns ==
    /\ main_op.op = "tick"
    /\ main_op.stage = "query"
    /\ \E list \in BackendLists : TickRefreshDone(TRUE, list)

TickRefreshFails ==
    /\ main_op.op = "tick"
    /\ main_op.stage = "failed"
    /\ TickRefreshDone(FALSE, <<>>)

\* std::time::Instant::now() advances
TimePasses ==
    /\ run_pc # "exited"
    /\ \E v \in TickingViews : elapsed[v] + ClockStep <= MaxElapsed
    /\ elapsed' = [v \in TickingViews |->
                      IF elapsed[v] + ClockStep <= MaxElapsed
                      THEN elapsed[v] + ClockStep ELSE elapsed[v]]
    /\ UNCHANGED <<run_pc, run_result, termVars, ctlVars, tokVars, input_pc, appVars,
                   items, selected_index, lock, view_task, main_op, modal, backend, daemon>>

ViewNext ==
    \/ InitTerminal
    \/ StartViews
    \/ MainAcquire
    \/ MainQueryFails
    \/ StartRefreshReturns
    \/ StartRefreshFails
    \/ StartInputTask
    \/ Draw
    \/ ExitLoop
    \/ DispatchGlobalKey
    \/ DispatchViewKey
    \/ ManualRefreshReturns
    \/ ManualRefreshFails
    \/ ToggleDone
    \/ InspectReturns
    \/ InspectFails
    \/ DispatchTick
    \/ TickCheck
    \/ TickRefreshReturns
    \/ TickRefreshFails
    \/ TimePasses
    \/ CleanupTerminal
    \/ Cancel
    \/ InputCancelled
    \/ \E v \in SpawningViews : ViewTaskSelect(v)
    \/ \E v \in SpawningViews : ViewTaskAcquire(v)
    \/ \E v \in SpawningViews : ViewTaskQueryReturns(v)
    \/ ProcessExit

ViewSpec == Init /\ [][ViewNext]_vars

\* ========================== the views' background polling with no key input
\* Spec and ViewSpec let every list query return any list; here the daemon's
\* container and network lists are state, so that a view's rows can be
\* compared with what the daemon holds.
\* containers or networks are created or removed outside the application
BackendChanges ==
    /\ run_pc # "exited"
    /\ \E v \in SpawningViews :
         \E list \in BackendLists \ {backend[v]} :
             backend' = [backend EXCEPT ![v] = list]
    /\ UNCHANGED <<run_pc, run_result, termVars, ctlVars, tokVars, input_pc, appVars,
                   items, selected_index, lock, view_task, main_op, modal, elapsed,
                   daemon>>

\* client.list_containers() / list_networks() returns what the daemon holds
ListedFromBackend(v) == v \in SpawningViews => items'[v] = backend[v]

PollStartRefreshReturns == StartRefreshReturns /\ ListedFromBackend(main_op.view)

PollNext ==
    \/ InitTerminal
    \/ StartViews
    \/ MainAcquire
    \/ MainQueryFails
    \/ PollStartRefreshReturns
    \/ StartRefreshFails
    \/ StartInputTask
    \/ Draw
    \/ DispatchTick
    \/ TickCheck
    \/ TickRefreshReturns
    \/ TickRefreshFails
    \/ TimePasses
    \/ BackendChanges
    \/ \E v \in SpawningViews : ViewTaskSelect(v)
    \/ \E v \in SpawningViews : ViewTaskAcquire(v)
    \/ \E v \in SpawningViews : ViewTaskQueryReturns(v)
    \/ ProcessExit

\* the steps of run() that wait for nobody else
PollMainStep ==
    \/ InitTerminal
    \/ StartViews
    \/ PollStartRefreshReturns
    \/ StartRefreshFails
    \/ StartInputTask
    \/ Draw
    \/ DispatchTick
    \/ TickCheck
    \/ TickRefreshReturns
    \/ TickRefreshFails

\* the runtime runs a task that is ready, interval.tick() fires, the tokio
\* Mutex hands the guard out in request order, a client call returns, run()
\* goes on, and the process ends when main returns
PollFairness ==
    /\ \A v \in SpawningViews : WF_vars(ViewTaskSelect(v))
    /\ \A v \in SpawningViews : SF_vars(ViewTaskAcquire(v))
    /\ \A v \in SpawningViews : WF_vars(ViewTaskQueryReturns(v))
    /\ SF_vars(MainAcquire)
    /\ WF_vars(PollMainStep)
    /\ WF_vars(ProcessExit)

PollSpec == Init /\ [][PollNext]_vars /\ PollFairness

\* ------------------------------------------------ concurrent fetches, in detail
\* Spec takes a list query and the send of its outcome as one step. The two
\* are apart in time: `match docker_client.list_containers().await` suspends
\* the task until the daemon has answered, and the polling task and a
\* RefreshRequested task query through clients of their own on a
\* multi-threaded runtime. Here the daemon's lists carry a version, a query
\* returns the version the daemon holds when it answers, and the send is a
\* step of its own.
MaxVersion == 2
ChangingKinds == {1}
FetchKeys == {"r"}

\* a container (image, network, volume) is created or removed
DaemonChanges ==
    /\ run_pc # "exited"
    /\ \E k \in ChangingKinds :
         /\ daemon[k] < MaxVersion
         /\ daemon' = [daemon EXCEPT ![k] = daemon[k] + 1]
    /\ UNCHANGED <<run_pc, run_result, termVars, ctlVars, tokVars, input_pc, appVars,
                   items, selected_index, lock, view_task, main_op, modal, elapsed,
                   backend>>

\* the task holds the outcome of the query of `stage`, not yet sent
Answered(stage, ok) ==
    [pc |-> "send", stage |-> stage, event |-> FetchEvent(stage, ok, daemon[stage])]

PollQuery ==
    /\ poll.pc = "fetch"
    /\ \E ok \in BOOLEAN : poll' = Answered(poll.stage, ok)
    /\ UNCHANGED <<run_pc, run_result, termVars, ctlVars, tokVars, input_pc,
                   queue, app_data, refresh, viewVars>>

PollSend ==
    /\ poll.pc = "send"
    /\ Len(queue) < MaxQueue
    /\ queue' = Append(queue, poll.event)
    /\ poll' = PollAfterFetch(poll.stage, poll.event.type = "Updated")
    /\ UNCHANGED <<run_pc, run_result, termVars, ctlVars, tokVars, input_pc,
                   app_data, refresh, viewVars>>

RefreshQuery(i) ==
    /\ refresh[i].pc = "fetch"
    /\ \E ok \in BOOLEAN :
           refresh' = [refresh EXCEPT ![i] = Answered(refresh[i].stage, ok)]
    /\ UNCHANGED <<run_pc, run_result, termVars, ctlVars, tokVars, input_pc,
                   queue, app_data, poll, viewVars>>

RefreshSend(i) ==
    /\ refresh[i].pc = "send"
    /\ Len(queue) < MaxQueue
    /\ queue' = Append(queue, refresh[i].event)
    /\ refresh' = [refresh EXCEPT ![i] = FetchNext(refresh[i].stage, "free")]
    /\ UNCHANGED <<run_pc, run_result, termVars, ctlVars, tokVars, input_pc,
                   app_data, poll, viewVars>>

\* the user presses the refresh key only
FetchInputKey == InputKey /\ queue'[Len(queue')].key \in FetchKeys

FetchNextStep ==
    \/ InitTerminal
    \/ StartDockerTask
    \/ StartInputTask
    \/ Draw
    \/ Recv
    \/ FetchInputKey
    \/ DaemonChanges
    \/ PollQuery
    \/ PollSend
    \/ PollTick
    \/ \E i \in RefreshIds : RefreshConnect(i)
    \/ \E i \in RefreshIds : RefreshQuery(i)
    \/ \E i \in RefreshIds : RefreshSend(i)
    \/ ProcessExit

FetchSpec == Init /\ [][FetchNextStep]_vars

\* ------------------------------------------- the client lock under contention
\* the key handling of ViewSpec reduced to what takes the lock or decides who
\* can: the keys that start a client call, the keys of the open modal, the
\* tab and quit keys; no periodic tick
LockViewKey == DispatchViewKey /\ (main_op'.op # "none" \/ modal' # modal)

LockNext ==
    \/ InitTerminal
    \/ StartViews
    \/ MainAcquire
    \/ MainQueryFails
    \/ StartRefreshReturns
    \/ StartRefreshFails
    \/ StartInputTask
    \/ Draw
    \/ ExitLoop
    \/ DispatchGlobalKey
    \/ LockViewKey
    \/ ManualRefreshReturns
    \/ ManualRefreshFails
    \/ ToggleDone
    \/ InspectReturns
    \/ InspectFails
    \/ CleanupTerminal
    \/ Cancel
    \/ InputCancelled
    \/ \E v \in SpawningViews : ViewTaskSelect(v)
    \/ \E v \in SpawningViews : ViewTaskAcquire(v)
    \/ \E v \in SpawningViews : ViewTaskQueryReturns(v)
    \/ ProcessExit

\* the client call the main loop awaits comes back, with Ok or with Err
MainCallReturns ==
    \/ StartRefreshReturns
    \/ StartRefreshFails
    \/ ManualRefreshReturns
    \/ ManualRefreshFails
    \/ ToggleDone
    \/ InspectReturns
    \/ InspectFails

\* every backend call returns; tokio's Mutex is fair: lock() futures get the
\* guard in the order they asked, so a waiter is not passed over for ever
LockFairness ==
    /\ \A v \in SpawningViews : SF_vars(ViewTaskAcquire(v))
    /\ \A v \in SpawningViews : WF_vars(ViewTaskQueryReturns(v))
    /\ SF_vars(MainAcquire)
    /\ WF_vars(MainCallReturns)

LockSpec == Init /\ [][LockNext]_vars /\ LockFairness

\* ------------------------------------------------- parts of the program alone
\* app.rs under key input: the steps of run(), of the input task and of the
\* RefreshRequested tasks a key starts; the polling task stays at its first
\* query. What a key does in handle_key_event reads nothing the polling task
\* writes.
AppKeyNext ==
    \/ InitTerminal
    \/ StartDockerTask
    \/ StartInputTask
    \/ Draw
    \/ ExitLoop
    \/ Recv
    \/ CleanupTerminal
    \/ Cancel
    \/ InputKey
    \/ InputCancelled
    \/ \E i \in RefreshIds : RefreshConnect(i)
    \/ \E i \in RefreshIds : RefreshFetch(i)
    \/ ProcessExit

AppKeySpec == Init /\ [][AppKeyNext]_vars

\* the views under the calls of the main loop: start, keys and the periodic
\* tick. The two background tasks stay where start() spawned them; they drop
\* what they query and write no field of a view, so what a call of the main
\* loop does to a view does not depend on their steps (LockSpec and PollSpec
\* have them).
MainLoopNext ==
    \/ InitTerminal
    \/ StartViews
    \/ MainAcquire
    \/ MainQueryFails
    \/ StartRefreshReturns
    \/ StartRefreshFails
    \/ StartInputTask
    \/ Draw
    \/ ExitLoop
    \/ DispatchGlobalKey
    \/ DispatchViewKey
    \/ ManualRefreshReturns
    \/ ManualRefreshFails
    \/ ToggleDone
    \/ InspectReturns
    \/ InspectFails
    \/ DispatchTick
    \/ TickCheck
    \/ TickRefreshReturns
    \/ TickRefreshFails
    \/ TimePasses
    \/ CleanupTerminal
    \/ Cancel
    \/ InputCancelled
    \/ ProcessExit

MainLoopSpec == Init /\ [][MainLoopNext]_vars

\* the same under key input only: no periodic tick
KeyViewNext ==
    \/ InitTerminal
    \/ StartViews
    \/ MainAcquire
    \/ MainQueryFails
    \/ StartRefreshReturns
    \/ StartRefreshFails
    \/ StartInputTask
    \/ Draw
    \/ ExitLoop
    \/ DispatchGlobalKey
    \/ DispatchViewKey
    \/ ManualRefreshReturns
    \/ ManualRefreshFails
    \/ ToggleDone
    \/ InspectReturns
    \/ InspectFails
    \/ CleanupTerminal
    \/ Cancel
    \/ InputCancelled
    \/ ProcessExit

KeyViewSpec == Init /\ [][KeyViewNext]_vars

\* ================================================================ properties
\* the three calls of refresh_now the main loop makes
RefreshOps == {"start", "refresh", "tick"}

\* a refresh_now call of the main loop returns Ok in this step
RefreshSucceeds ==
    /\ main_op.op \in RefreshOps
    /\ main_op.stage = "query"
    /\ main_op' # main_op
    /\ main_op'.stage # "failed"

\* the same, as the steps of the three calls
RefreshReturns == StartRefreshReturns \/ ManualRefreshReturns \/ TickRefreshReturns

\* a refresh_now call of the main loop returns Err in this step
RefreshFails ==
    /\ main_op.op \in RefreshOps
    /\ main_op.stage = "failed"
    /\ main_op' # main_op

\* C1: active_tab is always one of the NumTabs tab indices; handling a Left key
\* on tab 0 gives tab NumTabs - 1 and handling a Right key on tab NumTabs - 1
\* gives tab 0.
C1_TabIndexWraps ==
    /\ [](active_tab \in Tabs)
    /\ [][(run_pc = "recv" /\ run_pc' = "loop" /\ queue # <<>>
             /\ Head(queue).type = "Key")
          => /\ (Head(queue).key = "Left" /\ active_tab = 0)
                    => active_tab' = NumTabs - 1
             /\ (Head(queue).key = "Right" /\ active_tab = NumTabs - 1)
                    => active_tab' = 0
             /\ (Head(queue).key \notin {"Left", "Right"})
                    => active_tab' = active_tab]_vars

\* a Right key is about to be handled on the last tab, which earlier key
\* events made the active one
C1_Witness ==
    /\ run_pc = "recv"
    /\ active_tab = NumTabs - 1
    /\ queue # <<>>
    /\ Head(queue) = KeyEvent("Right")

\* C2: in every view selected_index is 0 when items is empty and below the
\* number of items otherwise.
C2_SelectedIndexInRange ==
    \A v \in Tabs :
        IF items[v] = <<>> THEN selected_index[v] = 0
                           ELSE selected_index[v] < Len(items[v])

\* C3: once the orchestrator's token is cancelled no view's background task
\* starts a query.
C3_NoQueryAfterCancel ==
    [][(AppToken \in cancelled)
       => (\A v \in SpawningViews :
               view_task[v] # "query" => view_task'[v] # "query")]_vars

\* C4: when run() has returned by normal quit, by a draw error or by an error
\* while starting the background tasks, raw mode is off, the alternate screen
\* is left, the cursor is shown and the token was cancelled exactly once.
C4_RestoredAndCancelledOnReturn ==
    (run_pc = "returned" /\ run_result \in {"ok", "draw", "connect"})
        => /\ ~raw_mode
           /\ ~alt_screen
           /\ cursor_shown
           /\ AppToken \in cancelled
           /\ cancel_count = 1

\* C5: when run() has returned because the connection could not be made, raw
\* mode was never entered and the alternate screen never opened.
C5_ConnectFailureLeavesTerminal ==
    run_result = "connect" => ~raw_mode /\ ~alt_screen

C7_FailedRefreshKeepsItems ==
    /\ [][RefreshFails => items' = items /\ selected_index' = selected_index]_vars
    /\ [](main_op.op \in RefreshOps /\ main_op.stage = "query"
          => \A list \in BackendLists :
                 ENABLED (RefreshReturns /\ items'[main_op.view] = list))

\* a periodic refresh has failed while the view shows two rows, the second
\* one selected
C7_Witness ==
    /\ main_op.op = "tick"
    /\ main_op.stage = "failed"
    /\ Len(items[main_op.view]) = 2
    /\ selected_index[main_op.view] = 1

\* C8: a successful refresh makes items the list returned and selected_index
\* the smaller of its old value and the last index, 0 when the list is empty.
C8_RefreshClampsSelection ==
    [][RefreshSucceeds
       => (LET v   == main_op.view
               new == items'[v]
           IN  /\ new \in BackendLists
               /\ selected_index'[v] =
                      IF new = <<>> THEN 0
                      ELSE IF selected_index[v] < Len(new) - 1
                           THEN selected_index[v] ELSE Len(new) - 1)]_vars

C10_HungQueryStallsOnlyItsTask ==
    \A v \in SpawningViews :
        view_task[v] = "query"
            => /\ main_op.stage = "lock" => ENABLED MainAcquire
               /\ \A w \in SpawningViews \ {v} :
                      view_task[w] = "lock" => ENABLED ViewTaskAcquire(w)

\* no task of the program is running
TasksStopped ==
    /\ input_pc \in {"unspawned", "done", "dropped"}
    /\ poll.pc \in {"unspawned", "done", "dropped"}
    /\ \A i \in RefreshIds : refresh[i].pc = "free"
    /\ \A v \in SpawningViews : view_task[v] \in {"unspawned", "done", "dropped"}

HandlesKey(k) ==
    /\ run_pc = "recv"
    /\ run_pc' = "loop"
    /\ queue # <<>>
    /\ Head(queue) = KeyEvent(k)

\* C12: handling q, Esc or Ctrl+C sets the quit flag on any tab; handling a
\* plain c leaves the flag as it is; once the flag is set it stays set, the
\* loop receives and draws nothing more and goes to the cleanup.
C12_QuitKeys ==
    /\ [][\A k \in Keys :
            HandlesKey(k)
              => should_quit' = (should_quit \/ k \in {"q", "Esc", "ctrl_c"})]_vars
    /\ [][should_quit => should_quit']_vars
    /\ [](should_quit => run_pc \notin {"recv", "handling"})
    /\ [][(should_quit /\ run_pc = "loop") => run_pc' \in {"loop", "cleanup"}]_vars
    /\ []((should_quit /\ run_pc = "loop") => ENABLED ExitLoop)

\* the flag is set on the third tab while another event waits in the channel
C12_Witness ==
    /\ should_quit
    /\ run_pc = "loop"
    /\ active_tab = 2
    /\ queue # <<>>

\* the main loop takes the key event at the head of the channel in this step,
\* whatever it then does with it
TakesKey(k) ==
    /\ run_pc = "recv"
    /\ run_pc' # "recv"
    /\ queue # <<>>
    /\ Head(queue) = KeyEvent(k)

\* C13: a key that is not q, Esc, Ctrl+C, Left or Right goes to handle_input
\* of the view bound to active_tab: when the loop takes r or F5 the refresh
\* that view's handle_input makes begins, and taking any such key leaves the
\* other views as they were.
C13_KeyGoesToActiveView ==
    [][\A k \in Keys \ GlobalKeys :
          TakesKey(k)
            => /\ k \in {"r", "F5"}
                    => main_op' = [op |-> "refresh", view |-> active_tab,
                                   stage |-> "lock"]
               /\ \A v \in Tabs \ {active_tab} :
                      /\ items'[v] = items[v]
                      /\ selected_index'[v] = selected_index[v]]_vars

\* C14: a manual refresh is done when the dispatch of its key is done: once
\* the loop has handled r or F5 and is back at the top of the loop, no
\* refresh request is left waiting in the channel for a later dispatch.
C14_ManualRefreshSynchronous ==
    [][\A k \in {"r", "F5"} :
          (TakesKey(k) /\ run_pc' = "loop")
            => \A i \in 1 .. Len(queue') : queue'[i] # RefreshRequested]_vars

\* C15: a refresh repeated with the same backend result changes nothing more:
\* applying the list a successful refresh has just stored once again gives
\* the same items and the same selected_index, and a refresh that returns the
\* rows the view already holds leaves selected_index where it was.
C15_RefreshIdempotent ==
    /\ [][RefreshSucceeds
          => (LET v == main_op.view IN
              /\ ItemsAfterRefresh(items'[v], TRUE, items'[v]) = items'[v]
              /\ SelectedAfterRefresh(selected_index'[v], TRUE, items'[v])
                     = selected_index'[v])]_vars
    /\ [][(RefreshSucceeds /\ items'[main_op.view] = items[main_op.view])
          => selected_index' = selected_index]_vars

\* a manual refresh is in flight in a view that holds two rows from an
\* earlier refresh, the second one selected
C15_Witness ==
    /\ main_op.op = "refresh"
    /\ main_op.stage = "query"
    /\ Len(items[main_op.view]) = 2
    /\ selected_index[main_op.view] = 1

\* the view of tab v takes keys for its table (no modal over it)
Browsing(v) == ~(v = ImagesTab /\ modal.show)

\* C16: in a view that is browsing, Down gives selected_index + 1 when the
\* index is below the last row and the index itself otherwise (also with no
\* rows), Up gives selected_index - 1 when the index is above 0 and the index
\* itself otherwise; a key the loop hands to the view moves the index by one
\* of these two and leaves every view's items as they were.
C16_UpDownStepWithinRows ==
    [][(run_pc = "recv" /\ run_pc' # "recv" /\ Browsing(active_tab))
       => (LET v    == active_tab
               sel  == selected_index[v]
               down == IF sel < Len(items[v]) - 1 THEN sel + 1 ELSE sel
               up   == IF sel > 0 THEN sel - 1 ELSE sel
           IN  /\ SelectedAfterKey(sel, items[v], "Down") = down
               /\ SelectedAfterKey(sel, items[v], "Up") = up
               /\ selected_index'[v] \in {sel, down, up}
               /\ items' = items)]_vars

\* the loop waits for a key on the networks tab with the selection on the
\* last of two rows, where an earlier Down has put it
C16_Witness ==
    /\ run_pc = "recv"
    /\ active_tab = NetworksTab
    /\ Len(items[NetworksTab]) = 2
    /\ selected_index[NetworksTab] = 1

\* the tab after n more Right keys
RECURSIVE TabAfterRights(_, _)
TabAfterRights(tab, n) ==
    IF n = 0 THEN tab ELSE TabAfterRights(TabAfterKey(tab, "Right"), n - 1)

\* C17: NumTabs Rights from any tab come back to it, NumTabs - 1 Rights from
\* tab 0 give the last tab, Left after Right and Right after Left give the tab
\* they started from; and the tab key the loop has just handled is undone by
\* the opposite key.
C17_TabKeysCycle ==
    [][(HandlesKey("Right") \/ HandlesKey("Left"))
       => /\ \A t \in {active_tab, active_tab'} :
                /\ TabAfterRights(t, NumTabs) = t
                /\ TabAfterKey(TabAfterKey(t, "Right"), "Left") = t
                /\ TabAfterKey(TabAfterKey(t, "Left"), "Right") = t
          /\ TabAfterRights(0, NumTabs - 1) = NumTabs - 1
          /\ HandlesKey("Right") => TabAfterKey(active_tab', "Left") = active_tab
          /\ HandlesKey("Left") => TabAfterKey(active_tab', "Right") = active_tab]_vars

\* on the second tab the loop is about to handle a Left with a Right behind it
C17_Witness ==
    /\ run_pc = "recv"
    /\ active_tab = 1
    /\ queue = <<KeyEvent("Left"), KeyEvent("Right")>>


\* C18: when the inspect modal is opened, a frame showing the "Loading..."
\* placeholder (show_inspect_modal set, inspect_data None) is rendered before
\* the outcome of the detail fetch is applied; so whenever the placeholder
\* state is left, the last frame drawn showed it.
C18_LoadingFrameRendered ==
    [][(LoadingPlaceholder(modal) /\ ~LoadingPlaceholder(modal')) => loading_drawn]_vars


\* the step in which inspect_image applies the outcome of the detail fetch
InspectOutcomeApplied == main_op.op = "inspect" /\ main_op' = NoOp

\* C19: the outcome of the detail fetch decides the modal: on success the
\* modal stays open with inspect_data set and inspect_scroll 0, on failure
\* the modal is closed and inspect_data stays None; in both cases handle_input
\* returns without an error to the loop, and the images view's items and
\* selected_index are the same as before the key.
C19_InspectOutcome ==
    /\ [][(InspectOutcomeApplied /\ main_op.stage = "query") =>
              (modal'.show /\ modal'.data # -1 /\ modal'.scroll = 0)]_vars
    /\ [][(InspectOutcomeApplied /\ main_op.stage = "failed") =>
              (~modal'.show /\ modal'.data = -1)]_vars
    /\ [][InspectOutcomeApplied =>
              (run_pc' = "loop" /\ run_result' = run_result /\ ~should_quit')]_vars
    /\ [][(main_op.op = "inspect" \/ main_op'.op = "inspect") =>
              (/\ items'[ImagesTab] = items[ImagesTab]
               /\ selected_index'[ImagesTab] = selected_index[ImagesTab])]_vars

C19_Witness ==
    /\ main_op = [op |-> "inspect", view |-> ImagesTab, stage |-> "failed"]
    /\ modal = ModalLoading
    /\ Len(items[ImagesTab]) = 2
    /\ selected_index[ImagesTab] = 1


\* C20: while the inspect modal is open and the loop waits for a key, the key
\* its legend names for closing (Esc) closes it: the view's modal input
\* handling takes Esc to the closed modal with inspect_scroll 0, and Esc does
\* not set the quit flag.
C20_EscClosesModal ==
    (run_pc = "recv" /\ active_tab = ImagesTab /\ modal.show) =>
        (/\ ModalAfterKey(modal, "Esc") = ModalClosed
         /\ ~KeyQuits("Esc"))


\* the main loop is inside a client call: between lock().await and the end of
\* the function that took the guard
MainInCall == main_op.stage \in {"query", "failed"}

\* who is between taking the guard and dropping it
LockHolders ==
    (IF MainInCall THEN {"main"} ELSE {})
        \cup {TaskOf(v) : v \in {w \in SpawningViews : view_task[w] = "query"}}

\* C21: the client lock has at most one holder, and the holder is the one the
\* mutex records; the main loop does not hold it while it draws or waits for
\* an event; and whoever holds it gives it up (to nobody else) in the step in
\* which its one backend call returns.
C21_LockHeldForOneCall ==
    /\ [](run_pc # "exited" => LockHolders = (IF lock = "free" THEN {} ELSE {lock}))
    /\ [](run_pc \in {"loop", "recv"} => lock # "main" /\ ~MainInCall)
    /\ [][(MainInCall /\ main_op' # main_op /\ main_op'.stage # "failed")
              => (lock = "main" /\ lock' = "free")]_vars
    /\ [][\A v \in SpawningViews :
              (view_task[v] = "query" /\ view_task'[v] \notin {"query", "dropped"})
                  => (lock = TaskOf(v) /\ lock' = "free")]_vars
    /\ [][(lock # "free" /\ lock' # lock /\ run_pc' # "exited") => lock' = "free"]_vars

C21_Witness ==
    /\ run_pc = "handling"
    /\ main_op = [op |-> "inspect", view |-> ImagesTab, stage |-> "query"]
    /\ lock = "main"
    /\ view_task[ContainersTab] = "lock"
    /\ view_task[NetworksTab] = "lock"


\* the background task of view v is in its polling loop
Polling(v) == view_task[v] \in {"select", "lock", "query"}

\* C22: with no key input, once the daemon's container (network) list has
\* stopped changing while the view's background task keeps polling, the
\* view's items eventually equal the daemon's list.
C22_PollingKeepsCurrent ==
    \A v \in SpawningViews : \A list \in BackendLists :
        <>[](Polling(v) /\ backend[v] = list) => <>(items[v] = list)


\* the loop takes an Error event from the channel
TakesError ==
    run_pc = "recv" /\ run_pc' # "recv" /\ queue # <<>> /\ Head(queue).type = "Error"

\* C23: dispatching an Error event changes nothing but the channel: the quit
\* flag, the result of run(), active_tab, the lists the orchestrator holds,
\* every view's items and selected_index and the spawned tasks stay as they
\* were, and the loop goes on to its next iteration.
C23_ErrorEventOnlyLogged ==
    [][TakesError =>
          (/\ run_pc' = "loop"
           /\ queue' = Tail(queue)
           /\ UNCHANGED <<run_result, should_quit, active_tab, app_data, refresh,
                          poll, items, selected_index, tokVars, termVars>>)]_vars

C23_Witness ==
    /\ run_pc = "recv"
    /\ queue # <<>>
    /\ Head(queue) = ErrorEvent(1)
    /\ app_data[1] = 1
    /\ active_tab = 1
    /\ ~should_quit


\* one event is sent: it is put behind the events already in the channel
IsSend == Len(queue') = Len(queue) + 1 /\ SubSeq(queue', 1, Len(queue)) = queue

\* the loop goes from recv().await to its next iteration
Dispatches == run_pc = "recv" /\ run_pc' = "loop"

C25_OnlyKeyPressesSent ==
    \A i \in 1 .. Len(queue) : queue[i].type = "Key" => queue[i].val = KindPress


\* C26: whichever view is active when a key arrives, its handle_input answers
\* handled = true for the keys it acts on and handled = false for every other
\* key, the orchestrator's keys q, Esc, Left and Right among them.
C26_HandledExactlyForOwnKeys ==
    run_pc = "recv" =>
        \A k \in ViewKeys \cup GlobalKeys :
            HandleInputResult(ComponentOfTab(active_tab), k)
                = (IF ActsOn(ComponentOfTab(active_tab), k) THEN "true" ELSE "false")


\* every view but v keeps its items and its selected_index in this step
OthersUntouched(v) ==
    \A w \in Tabs \ {v} :
        items'[w] = items[w] /\ selected_index'[w] = selected_index[w]

\* C27: a refresh writes only the state of the view that issued it: a view's
\* items change only in the step in which a refresh_now of that view returns
\* Ok, every refresh_now (initial, manual, periodic; Ok or Err) leaves the
\* other views' items and selected_index alone, a manual refresh is one of the
\* active view, a selected_index changes only by its own view's refresh or by
\* a key given to it as the active view, and neither the background tasks nor
\* the orchestrator's own steps write any view's items.
C27_RefreshWritesOwnViewOnly ==
    /\ [][(items' # items /\ run_pc' # "exited")
              => (RefreshSucceeds /\ OthersUntouched(main_op.view))]_vars
    /\ [][(RefreshSucceeds \/ RefreshFails) => OthersUntouched(main_op.view)]_vars
    /\ [](main_op.op = "refresh" => main_op.view = active_tab)
    /\ [][(selected_index' # selected_index /\ run_pc' # "exited")
              => \/ RefreshSucceeds /\ OthersUntouched(main_op.view)
                 \/ run_pc = "recv" /\ OthersUntouched(active_tab)]_vars

C27_Witness ==
    /\ main_op = [op |-> "refresh", view |-> NetworksTab, stage |-> "query"]
    /\ active_tab = NetworksTab
    /\ Len(items[ContainersTab]) = 2
    /\ selected_index[ContainersTab] = 1
    /\ Len(items[NetworksTab]) = 1


\* the key that closes the inspect modal in ImagesUI::handle_input
ModalCloseKey == "i"

\* the loop takes a key while the images view is active with its modal open
KeyWhileInspecting ==
    /\ run_pc = "recv"
    /\ run_pc' # "recv"
    /\ main_op'.op # "tick"
    /\ active_tab = ImagesTab
    /\ modal.show

\* by how much two scroll positions differ
ScrollStep(a, b) == IF a > b THEN a - b ELSE b - a

\* C28: while the inspect modal is open, a key changes nothing of the images
\* view but the modal: items and selected_index stay, no refresh or action is
\* started, the modal either stays open with the same data and a scroll
\* position at most one line away, or is closed; and in the view's modal
\* input handling only the close key closes it, only Up and Down move the
\* scroll position, and r, F5, d and p leave the modal as it is.
C28_ModalKeysOnlyScrollOrClose ==
    /\ [][KeyWhileInspecting =>
             (/\ items' = items
              /\ selected_index' = selected_index
              /\ main_op' = NoOp
              /\ lock' = lock
              /\ run_pc' = "loop"
              /\ \/ modal' = ModalClosed
                 \/ /\ modal'.show
                    /\ modal'.data = modal.data
                    /\ ScrollStep(modal'.scroll, modal.scroll) <= 1)]_vars
    /\ [][KeyWhileInspecting =>
             (\A k \in ViewKeys :
                 /\ k # ModalCloseKey => ModalAfterKey(modal, k).show
                 /\ k \notin {ModalCloseKey, "Up", "Down"} => ModalAfterKey(modal, k) = modal
                 /\ k \in {"Up", "Down"} =>
                       /\ ModalAfterKey(modal, k).data = modal.data
                       /\ ScrollStep(ModalAfterKey(modal, k).scroll, modal.scroll) <= 1
                 /\ modal' \in {modal} \cup {ModalAfterKey(modal, j) : j \in ViewKeys})]_vars

C28_Witness ==
    /\ run_pc = "recv"
    /\ active_tab = ImagesTab
    /\ modal.show
    /\ modal.data # -1
    /\ modal.scroll = 1
    /\ Len(items[ImagesTab]) = 2
    /\ selected_index[ImagesTab] = 1


\* C29: with the details loaded, inspect_scroll never exceeds max(0, L - H),
\* where L is the number of lines of the detail text and H the number of lines
\* the popup shows, whatever the height of the popup.
C29_ScrollKeepsLastPageVisible ==
    (modal.show /\ modal.data # -1) =>
        \A H \in WindowHeights : modal.scroll <= SatSub(TotalLines(modal.data), H)


\* C30: a manual refresh never ends silently: the task spawned for a
\* RefreshRequested ends in a step that sends an event (the Updated or Error
\* event of its last query, or an Error event for a failed connection).
C30_ManualRefreshReported ==
    [][\A i \in RefreshIds :
          (refresh[i].pc # "free" /\ refresh'[i].pc = "free" /\ run_pc' # "exited")
              => IsSend]_vars


\* the calls an action key makes on the client
ActionOps == {"toggle", "inspect"}

\* the action letters of the four views
ActionKeys == {"s", "l", "d", "p", "c", "i"}

\* C31: a resource action never ends the loop and never writes the rows: the
\* call an action key makes returns to the loop with run() still running and
\* no error recorded, whether the client call succeeded or failed; while the
\* call is under way no view's items or selected_index change; and with no row
\* to act on (empty list) an action key starts no call and leaves the
\* selection where it is.
C31_ActionsNeverAbort ==
    /\ [][(main_op.op \in ActionOps /\ main_op' = NoOp) =>
             (/\ main_op.stage \in {"query", "failed"}
              /\ run_pc' = "loop"
              /\ run_result' = run_result
              /\ should_quit' = should_quit)]_vars
    /\ [][(main_op.op \in ActionOps \/ main_op'.op \in ActionOps) =>
             (items' = items /\ selected_index' = selected_index)]_vars
    /\ [][(run_pc = "recv" /\ run_pc' # "recv" /\ Browsing(active_tab)
              /\ items[active_tab] = <<>>) =>
             (\A k \in ActionKeys :
                 /\ OpOfKey(ComponentOfTab(active_tab), k) = "none"
                 /\ SelectedAfterKey(selected_index[active_tab], items[active_tab], k)
                        = selected_index[active_tab])]_vars
    /\ [](main_op.op \in ActionOps => run_pc = "handling")

C31_Witness ==
    /\ main_op = [op |-> "toggle", view |-> ContainersTab, stage |-> "failed"]
    /\ Len(items[ContainersTab]) = 2
    /\ selected_index[ContainersTab] = 1


\* C32: active_tab is the tab() of exactly one view of the collection in every
\* reachable state, so the lookup made when a frame is drawn finds a view and
\* the "Unknown tab" fallback is never drawn; the tab numbers of the
\* collection are 0 .. NumTabs - 1 in construction order, and the view found
\* is the one input is routed to.
C32_ActiveTabHasOneView ==
    /\ Cardinality(ViewsWithTab(active_tab)) = 1
    /\ \A i \in 1 .. Len(Components) : Components[i] = i - 1
    /\ Len(Components) = NumTabs
    /\ Components[CHOOSE i \in ViewsWithTab(active_tab) : TRUE] = ComponentOfTab(active_tab)

C32_Witness ==
    /\ run_pc = "loop"
    /\ ~should_quit
    /\ active_tab = NumTabs - 1
    /\ Len(items[VolumesTab]) = 1


\* what a frame is drawn from
DrawnState == <<active_tab, app_data, items, selected_index, modal>>

\* C33: the loop alternates draw, wait, dispatch: it waits for an event only
\* after a draw made with the quit flag clear, a step that takes an event from
\* the channel ends the iteration (so one event per iteration), after a
\* dispatch the loop is back at the top where, with the quit flag clear, the
\* draw is the step it can take, and nothing but a dispatch changes what the
\* frame is drawn from or the quit flag, so the frame shows the state the
\* dispatch left.
C33_DrawWaitDispatch ==
    /\ [][(run_pc # "recv" /\ run_pc' = "recv") =>
             (run_pc = "loop" /\ ~should_quit /\ UNCHANGED <<DrawnState, queue>>)]_vars
    /\ [][(run_pc = "recv" /\ queue' # queue /\ ~IsSend /\ run_pc' # "exited")
             => run_pc' = "loop"]_vars
    /\ [][run_pc = "recv" => run_pc' \in {"recv", "loop"}]_vars
    /\ [][(run_pc = "loop" /\ run_pc' # "loop") =>
             (IF should_quit THEN run_pc' = "cleanup"
                             ELSE run_pc' \in {"recv", "returned"})]_vars
    /\ [](run_pc = "loop" /\ ~should_quit => ENABLED Draw)
    /\ [][(~Dispatches /\ run_pc' # "exited") => UNCHANGED <<DrawnState, should_quit>>]_vars

C33_Witness ==
    /\ run_pc = "loop"
    /\ ~should_quit
    /\ ~cursor_shown
    /\ app_data[1] = 1
    /\ queue = <<KeyEvent("Right")>>


\* the polling task has sent the outcome of its initial fetch and the loop has
\* taken it from the channel
InitialDataLoaded == poll.pc \notin {"unspawned", "fetch"} /\ queue = <<>>

\* C34: the initial data is loaded before the input task is started and
\* before the first frame is drawn (the cursor is still shown until the first
\* draw), so no key can be dispatched before it.
C34_InitialDataBeforeInputAndDraw ==
    /\ [][(input_pc = "unspawned" /\ input_pc' = "running") => InitialDataLoaded]_vars
    /\ [][(run_pc = "loop" /\ run_pc' = "recv" /\ cursor_shown) => InitialDataLoaded]_vars


\* C35: with the polling task and a RefreshRequested task fetching at the same
\* time, a list the orchestrator holds is never replaced by an older snapshot
\* of the daemon's list (the daemon's versions only grow).
C35_OlderSnapshotNeverOverwrites ==
    [][run_pc' # "exited" => \A k \in Kinds : app_data'[k] >= app_data[k]]_vars


\* the events the query of kind `stage` can send
OutcomesOf(stage) == {UpdatedEvent(stage, v) : v \in 1 .. MaxData} \cup {ErrorEvent(stage)}

\* a fetching task at `t` sends exactly the outcome of its stage
SendsOutcome(t) ==
    /\ Len(queue') = Len(queue) + 1
    /\ SubSeq(queue', 1, Len(queue)) = queue
    /\ queue'[Len(queue')] \in OutcomesOf(t.stage)

\* C36: a run of fetch_all_docker_data starts at containers, every step of it
\* sends the Updated or the Error event of its own kind and goes on to the
\* next kind, whatever the outcome, and the run ends after volumes.
C36_FourEventsInFixedOrder ==
    /\ [][(poll.pc = "fetch" /\ poll' # poll /\ run_pc' # "exited") =>
            (SendsOutcome(poll) /\ poll' = FetchNext(poll.stage, "select"))]_vars
    /\ [][(poll.pc # "fetch" /\ poll'.pc = "fetch") => poll'.stage = 1]_vars
    /\ [][(\A i \in RefreshIds :
            /\ (refresh[i].pc = "fetch" /\ refresh'[i] # refresh[i] /\ run_pc' # "exited") =>
                   (SendsOutcome(refresh[i])
                      /\ refresh'[i] = FetchNext(refresh[i].stage, "free"))
            /\ (refresh[i].pc # "fetch" /\ refresh'[i].pc = "fetch") =>
                   refresh'[i].stage = 1)]_vars

\* the containers query has failed and the images query was made all the same
C36_Witness ==
    /\ queue = <<ErrorEvent(1), UpdatedEvent(2, 1)>>
    /\ poll = [pc |-> "fetch", stage |-> 3]


\* C37: in the images view a modal that is not shown holds no inspect data and
\* scroll 0, in every reachable state; and every step that opens, fills,
\* scrolls or closes the modal leaves every view's rows and selected_index as
\* they were, so the view is back to Browsing over the same rows.
C37_ClosedModalIsReset ==
    /\ [](~modal.show => (modal.data = -1 /\ modal.scroll = 0))
    /\ [][(modal' # modal /\ run_pc' # "exited") =>
            (items' = items /\ selected_index' = selected_index)]_vars
    /\ [][(modal.show /\ ~modal'.show) => Browsing(ImagesTab)']_vars

\* the modal is open over the second of two rows, filled and scrolled down:
\* what the close key has to reset
C37_Witness ==
    /\ modal.show
    /\ modal.data # -1
    /\ modal.scroll = 2
    /\ items[ImagesTab] = <<1, 2>>
    /\ selected_index[ImagesTab] = 1


\* C38: the dispatch of Left or Right moves active_tab and leaves the quit
\* flag, the orchestrator's lists, every view's rows, selected_index and modal
\* and the refresh tasks as they were; and the quit flag, once set, stays set.
C38_ArrowsChangeOnlyActiveTab ==
    /\ [][(\A k \in {"Left", "Right"} :
             HandlesKey(k) =>
                 /\ active_tab' = TabAfterKey(active_tab, k)
                 /\ active_tab' # active_tab
                 /\ should_quit' = should_quit
                 /\ queue' = Tail(queue)
                 /\ UNCHANGED <<app_data, refresh, poll, items, selected_index, modal>>)]_vars
    /\ [][should_quit => should_quit']_vars

\* the images tab is active, reached by an arrow key, with the containers list
\* loaded and the quit flag still unset
C38_Witness ==
    /\ active_tab = 1
    /\ run_pc = "loop"
    /\ app_data[1] = 1
    /\ ~should_quit


\* the tasks that wait for the client lock
MainWaits == main_op.stage = "lock"
TaskWaits(v) == view_task[v] = "lock"

\* C39: nobody asks for the client lock while holding it, and, every backend
\* call returning, whoever waits for the lock gets it: the main loop in a
\* start or manual refresh, a toggle or an inspect, and each background
\* refresh task (unless the process ends first, which drops the task).
C39_LockNeverDeadlocks ==
    /\ [](lock = "main" => ~MainWaits)
    /\ [](\A v \in SpawningViews : lock = TaskOf(v) => ~TaskWaits(v))
    /\ MainWaits ~> (lock = "main")
    /\ \A v \in SpawningViews :
           TaskWaits(v) ~> (lock = TaskOf(v) \/ run_pc = "exited")

\* the main loop waits in an inspect for the lock the containers task holds
\* while the networks task waits too
C39_Witness ==
    /\ main_op.op = "inspect"
    /\ MainWaits
    /\ lock = TaskOf(ContainersTab)
    /\ TaskWaits(NetworksTab)


\* the images view's tick() goes on to its list query in this step
ImagesTickQueries ==
    /\ main_op.op = "tick"
    /\ main_op.view = ImagesTab
    /\ main_op.stage = "check"
    /\ main_op'.stage = "lock"

\* C40: tick() of the images view issues its list query only when at least 15
\* seconds have passed since the last periodic refresh.
C40_ImagesTickEvery15Seconds ==
    [][ImagesTickQueries => elapsed[ImagesTab] >= 15]_vars

====
